---- MODULE Spec2Model ----
(***************************************************************************)
(* A model of the rust_nn sources:                                         *)
(*   neunet/transforms/normalize.rs  min_max_normalization                 *)
(*   neunet/api/defs.rs              TrainingMessage::to_json              *)
(*   neunet/definitions.rs           MLOps (sigmoid, relu, soft_max, loss) *)
(*   neunet/optimization.rs          NeuralNetwork::forward_prop and       *)
(*                                   StochasticGradientDescent::optimize   *)
(*                                                                         *)
(* Floating point numbers (f32, f64) are modelled in fixed point: the      *)
(* integer x stands for the real x / SCALE.  exp, ln and the sigmoid are   *)
(* read from tables of their values and interpolated linearly between the  *)
(* knots.  A float that is not a number is kept apart ("nan", "inf").      *)
(*                                                                         *)
(* Each routine is a state machine of its own, with its own variables and  *)
(* its own specification (SpecNorm, SpecJson, SpecSoftMax, SpecFwd,        *)
(* SpecSgd); the variables of the other routines stay idle meanwhile.      *)
(***************************************************************************)
EXTENDS Integers, Sequences, FiniteSets

VARIABLES
    \* min_max_normalization
    features, orig, rows, cols, c, r, index, min, max, pcN,
    \* TrainingMessage::to_json
    msg, pretty, out,
    \* MLOps::soft_max
    v, sum, e, res, pcS,
    \* NeuralNetwork::forward_prop
    layers, inputs, current, l, pcF,
    \* StochasticGradientDescent::optimize
    data, y, learning_rate, stop_cost_quota, num_examples, num_features,
    w, dw, b, db, cost, converged, iteration, i, pc, outcome

normVars == <<features, orig, rows, cols, c, r, index, min, max, pcN>>
jsonVars == <<msg, pretty, out>>
smVars == <<v, sum, e, res, pcS>>
fwdVars == <<layers, inputs, current, l, pcF>>
sgdVars == <<data, y, learning_rate, stop_cost_quota, num_examples, num_features,
             w, dw, b, db, cost, converged, iteration, i, pc, outcome>>
vars == <<normVars, jsonVars, smVars, fwdVars, sgdVars>>

\* What each routine leaves alone: the variables of the others.
notNormVars == <<jsonVars, smVars, fwdVars, sgdVars>>
notJsonVars == <<normVars, smVars, fwdVars, sgdVars>>
notSmVars == <<normVars, jsonVars, fwdVars, sgdVars>>
notFwdVars == <<normVars, jsonVars, smVars, sgdVars>>
notSgdVars == <<normVars, jsonVars, smVars, fwdVars>>

----------------------------------------------------------------------------
(* Bounds of the model.                                                    *)

\* Largest row and column count of a matrix given to min_max_normalization.
NormMaxRows == 2
NormMaxCols == 2

\* The cell values a feature matrix is drawn from (reals, before scaling).
CellVals == {-1, 0, 2}

----------------------------------------------------------------------------
(* Fixed-point arithmetic.                                                 *)

\* One unit of the reals: x stands for x / SCALE.
SCALE == 1000

\* The real k as a fixed-point number.
Fx(k) == k * SCALE

\* p / q rounded to the nearest integer, q > 0.
RDiv(p, q) == (2 * p + q) \div (2 * q)

\* f * g of two fixed-point numbers.
Mul(f, g) == RDiv(f * g, SCALE)

\* Linear interpolation of the table X -> Y at x, clamped to the table's ends.
Interp(X, Y, x) ==
    IF x <= X[1] THEN Y[1]
    ELSE IF x >= X[Len(X)] THEN Y[Len(X)]
    ELSE LET n == CHOOSE k \in 1..(Len(X) - 1) : X[k] <= x /\ x < X[k + 1]
         IN  Y[n] + ((Y[n + 1] - Y[n]) * (x - X[n])) \div (X[n + 1] - X[n])

\* Sum of a sequence of integers.
RECURSIVE SeqSum(_)
SeqSum(s) == IF s = <<>> THEN 0 ELSE Head(s) + SeqSum(Tail(s))

\* Least and greatest element of a non-empty sequence of integers.
SeqMin(s) == CHOOSE m \in {s[k] : k \in DOMAIN s} : \A k \in DOMAIN s : m <= s[k]
SeqMax(s) == CHOOSE m \in {s[k] : k \in DOMAIN s} : \A k \in DOMAIN s : m >= s[k]

\* A float: a number, or what a division by zero leaves.
Num(x) == [kind |-> "num", v |-> x]
NaN == [kind |-> "nan", v |-> 0]
Inf(s) == [kind |-> "inf", v |-> s]

\* p - q of two floats.
FSub(p, q) ==
    IF p.kind = "nan" \/ q.kind = "nan" THEN NaN
    ELSE IF p.kind = "inf" THEN (IF q.kind = "inf" /\ q.v = p.v THEN NaN ELSE p)
    ELSE IF q.kind = "inf" THEN Inf(0 - q.v)
    ELSE Num(p.v - q.v)

\* p / q of two floats: 0/0 is NaN, x/0 is infinite.
FDiv(p, q) ==
    IF p.kind = "nan" \/ q.kind = "nan" THEN NaN
    ELSE IF p.kind = "inf" THEN (IF q.kind = "inf" THEN NaN ELSE p)
    ELSE IF q.kind = "inf" THEN Num(0)
    ELSE IF q.v = 0 THEN (IF p.v = 0 THEN NaN ELSE Inf(IF p.v > 0 THEN 1 ELSE -1))
    ELSE Num((p.v * SCALE) \div q.v)

----------------------------------------------------------------------------
(* min_max_normalization (transforms/normalize.rs).                        *)
(* features is the matrix's storage: column-major, cell (row, col) at the  *)
(* linear index col * rows + row (0-based).                                *)

\* features.column(col): the cells of column col, top to bottom.
Column(m, nrows, col) == [k \in 1..nrows |-> m[col * nrows + k]]

\* col_vec.min() and col_vec.max(), as fixed-point numbers.
ColMin(colv) == SeqMin([k \in DOMAIN colv |-> colv[k].v])
ColMax(colv) == SeqMax([k \in DOMAIN colv |-> colv[k].v])

\* A faulty variant: the column's first cell taken to be at index col, as if
\* the storage were row-major.
ColumnStartIndexRowMajor(col, nrows) == col

\* let mut index = c * rows
ColumnStartIndex(col, nrows) == col * nrows

\* *cell = (*cell - min) / { max - min }
NormalizeCell(cell, mn, mx) == FDiv(FSub(cell, Num(mn)), FSub(Num(mx), Num(mn)))

\* All matrices of a shape, as column-major storage.
Matrices(nrows, ncols) == [1..(nrows * ncols) -> {Num(Fx(k)) : k \in CellVals}]

InitNorm ==
    /\ rows \in 1..NormMaxRows
    /\ cols \in 1..NormMaxCols
    /\ features \in Matrices(rows, cols)
    /\ orig = features
    /\ c = 0
    /\ r = 0
    /\ index = 0
    /\ min = 0
    /\ max = 0
    /\ pcN = "column"

IdleNorm ==
    /\ features = <<>>
    /\ orig = <<>>
    /\ rows = 0
    /\ cols = 0
    /\ c = 0
    /\ r = 0
    /\ index = 0
    /\ min = 0
    /\ max = 0
    /\ pcN = "idle"

\* for c in 0..cols: one more column; its min and max are read before any
\* of its cells is written.
NormColumn ==
    /\ pcN = "column"
    /\ c < cols
    /\ min' = ColMin(Column(features, rows, c))
    /\ max' = ColMax(Column(features, rows, c))
    /\ index' = ColumnStartIndex(c, rows)
    /\ r' = 0
    /\ pcN' = "cell"
    /\ UNCHANGED <<features, orig, rows, cols, c>>
    /\ UNCHANGED notNormVars

\* for _ in 0..rows: one cell of the column.
NormCell ==
    /\ pcN = "cell"
    /\ r < rows
    /\ features' = IF max > 0
                   THEN [features EXCEPT ![index + 1] = NormalizeCell(@, min, max)]
                   ELSE features
    /\ index' = index + 1
    /\ r' = r + 1
    /\ UNCHANGED <<orig, rows, cols, c, min, max, pcN>>
    /\ UNCHANGED notNormVars

\* The inner loop is over: on to the next column.
NormColumnEnd ==
    /\ pcN = "cell"
    /\ r = rows
    /\ c' = c + 1
    /\ pcN' = "column"
    /\ UNCHANGED <<features, orig, rows, cols, r, index, min, max>>
    /\ UNCHANGED notNormVars

\* The outer loop is over: the function returns.
NormReturn ==
    /\ pcN = "column"
    /\ c = cols
    /\ pcN' = "done"
    /\ UNCHANGED <<features, orig, rows, cols, c, r, index, min, max>>
    /\ UNCHANGED notNormVars

NextNorm ==
    \/ NormColumn
    \/ NormCell
    \/ NormColumnEnd
    \/ NormReturn

----------------------------------------------------------------------------
(* min_max_normalization: the properties.                                  *)

\* Column col of the matrix as it was given, and as it is now.
OrigColumn(col) == Column(orig, rows, col)
NowColumn(col) == Column(features, rows, col)

\* A float that is a number of [0, 1].
InUnitRange(cell) == cell.kind = "num" /\ 0 <= cell.v /\ cell.v <= SCALE

\* C1: once the function has returned, every column whose maximum was > 0
\* (a column of equal entries included) has minimum 0 and maximum 1, so all
\* its cells lie in [0, 1].
NormUnitRange ==
    pcN = "done" =>
        \A col \in 0..(cols - 1) :
            ColMax(OrigColumn(col)) > 0 =>
                /\ \A k \in 1..rows : InUnitRange(NowColumn(col)[k])
                /\ \E k \in 1..rows : NowColumn(col)[k] = Num(0)
                /\ \E k \in 1..rows : NowColumn(col)[k] = Num(SCALE)

\* C2: whenever a cell is about to be divided by max - min, max - min is
\* not zero.
NormNoDivisionByZero ==
    (pcN = "cell" /\ r < rows /\ max > 0) => max - min # 0

\* What cell (row k of column col) is to hold once its column is normalized:
\* a function of the column as it was given, and of nothing else.
NormalizedCell(col, k) ==
    LET oc == OrigColumn(col)
    IN  IF ColMax(oc) > 0 THEN NormalizeCell(oc[k], ColMin(oc), ColMax(oc)) ELSE oc[k]

\* The loops have passed row k of column col.
NormPassed(col, k) == col < c \/ (col = c /\ pcN = "cell" /\ k <= r)

\* C3: the shape never changes; a column whose maximum was <= 0 keeps every
\* cell; every cell the loops have passed holds the value its own column (as
\* given) determines, and every other cell is as given.
NormFrame ==
    /\ Len(features) = rows * cols
    /\ \A col \in 0..(cols - 1) :
          /\ ColMax(OrigColumn(col)) <= 0 => NowColumn(col) = OrigColumn(col)
          /\ \A k \in 1..rows :
                NowColumn(col)[k] = IF NormPassed(col, k)
                                    THEN NormalizedCell(col, k)
                                    ELSE OrigColumn(col)[k]

\* C3's case: the function has returned from a matrix with a column of
\* maximum <= 0 that is not all zero and a column that it rewrote to span
\* 0 to 1.
NormFrameWitness ==
    /\ pcN = "done"
    /\ \E col \in 0..(cols - 1) :
          /\ ColMax(OrigColumn(col)) <= 0
          /\ \E k \in 1..rows : OrigColumn(col)[k] # Num(0)
    /\ \E col \in 0..(cols - 1) :
          /\ ColMax(OrigColumn(col)) > 0
          /\ NowColumn(col) # OrigColumn(col)
          /\ \E k \in 1..rows : NowColumn(col)[k] = Num(0)
          /\ \E k \in 1..rows : NowColumn(col)[k] = Num(SCALE)

----------------------------------------------------------------------------
(* TrainingMessage::to_json (api/defs.rs).                                 *)
(* A JSON object is a record: its fields are the object's members.  The    *)
(* text that serde_json renders from the object (compact or pretty)        *)
(* differs in white space only and is not modelled.                        *)

\* Largest epoch, iteration and batch_start of a message.
MaxCount == 1

\* Option<T>: None, Some(x).
None == <<>>
Some(x) == <<x>>

\* TrainingEval values (2 classes; the matrix data is column-major).
Evals ==
    { [confusion_matrix_dim |-> 2, confusion_matrix |-> <<1, 0, 0, 1>>,
       labels_accuracies |-> <<1000, 1000>>, accuracy |-> 1000],
      [confusion_matrix_dim |-> 2, confusion_matrix |-> <<1, 1, 0, 0>>,
       labels_accuracies |-> <<500, 0>>, accuracy |-> 500] }

\* Metrics values.
MetricsSet == [loss : {0, 693}, train_eval : Evals, test_eval : Evals]

\* TrainingMessage values.
Messages ==
    [message : {"", "epoch done"}, iteration : 0..MaxCount, epoch : 0..MaxCount,
     batch_start : 0..MaxCount, metrics : {None} \cup {Some(m) : m \in MetricsSet}]

\* impl Default for TrainingMessage
DefaultMessage ==
    [message |-> "", iteration |-> 0, epoch |-> 0, batch_start |-> 0, metrics |-> None]

\* A faulty variant: the accuracies under the struct's field name.
EvalJsonFieldName(ev) ==
    [confusion_matrix |->
        [data |-> ev.confusion_matrix,
         predictions_on_cols |-> TRUE,
         data_orientation_per_col |-> TRUE,
         dimension |-> ev.confusion_matrix_dim],
     labels_accuracies |-> ev.labels_accuracies,
     accuracy |-> ev.accuracy]

\* The json!({...}) object built for train_eval and for test_eval.
EvalJson(ev) ==
    [confusion_matrix |->
        [data |-> ev.confusion_matrix,
         predictions_on_cols |-> TRUE,
         data_orientation_per_col |-> TRUE,
         dimension |-> ev.confusion_matrix_dim],
     label_accuracies |-> ev.labels_accuracies,
     accuracy |-> ev.accuracy]

\* to_json: the four fields, and with Some(metrics) three more inserted into
\* the same map.
ToJson(m) ==
    IF m.metrics = None
    THEN [message |-> m.message, epoch |-> m.epoch, iteration |-> m.iteration,
          batch_start |-> m.batch_start]
    ELSE [message |-> m.message, epoch |-> m.epoch, iteration |-> m.iteration,
          batch_start |-> m.batch_start,
          loss |-> m.metrics[1].loss,
          train_eval |-> EvalJson(m.metrics[1].train_eval),
          test_eval |-> EvalJson(m.metrics[1].test_eval)]

InitJson ==
    /\ msg = DefaultMessage
    /\ pretty = FALSE
    /\ out = <<>>

IdleJson ==
    /\ msg = <<>>
    /\ pretty = FALSE
    /\ out = <<>>

\* A caller builds the next message; nothing is rendered from it yet.
JsonBuild ==
    /\ msg' \in Messages
    /\ pretty' \in BOOLEAN
    /\ out' = <<>>
    /\ UNCHANGED notJsonVars

\* msg.to_json(pretty), as TrainingObserver::emit calls it.
JsonEmit ==
    /\ out = <<>>
    /\ out' = <<ToJson(msg)>>
    /\ UNCHANGED <<msg, pretty>>
    /\ UNCHANGED notJsonVars

NextJson ==
    \/ JsonBuild
    \/ JsonEmit

----------------------------------------------------------------------------
(* TrainingMessage::to_json: the properties.                               *)

\* The member names of the objects.
BaseFields == {"message", "epoch", "iteration", "batch_start"}
MetricsFields == {"loss", "train_eval", "test_eval"}
EvalFields == {"confusion_matrix", "label_accuracies", "accuracy"}

\* An eval object of the documented shape.
ContractEval(j) ==
    /\ DOMAIN j = EvalFields
    /\ DOMAIN j.confusion_matrix = {"data", "dimension", "predictions_on_cols"}

\* C4 as stated: the object has the four top-level members and, only with
\* metrics present, one member metrics that nests loss, train_eval and
\* test_eval, each eval of the documented shape; no other names appear.
JsonContractShape ==
    \A k \in DOMAIN out :
        /\ DOMAIN out[k] =
              BaseFields \cup (IF msg.metrics = None THEN {} ELSE {"metrics"})
        /\ msg.metrics # None =>
              /\ DOMAIN out[k].metrics = MetricsFields
              /\ ContractEval(out[k].metrics.train_eval)
              /\ ContractEval(out[k].metrics.test_eval)

\* An eval object as emitted: the confusion matrix has a fourth member,
\* data_orientation_per_col, and holds the eval's own data.
EmittedEval(j, ev) ==
    /\ DOMAIN j = EvalFields
    /\ DOMAIN j.confusion_matrix =
          {"data", "dimension", "predictions_on_cols", "data_orientation_per_col"}
    /\ j.confusion_matrix.data = ev.confusion_matrix
    /\ j.confusion_matrix.dimension = ev.confusion_matrix_dim
    /\ j.confusion_matrix.predictions_on_cols = TRUE
    /\ j.confusion_matrix.data_orientation_per_col = TRUE
    /\ j.label_accuracies = ev.labels_accuracies
    /\ j.accuracy = ev.accuracy

\* C4 as amended: the object has the four top-level members and, only with
\* metrics present, the members loss, train_eval and test_eval beside them
\* at the top level (there is no member metrics); each eval holds
\* confusion_matrix {data, dimension, predictions_on_cols,
\* data_orientation_per_col}, label_accuracies and accuracy.
JsonEmittedShape ==
    \A k \in DOMAIN out :
        /\ DOMAIN out[k] =
              BaseFields \cup (IF msg.metrics = None THEN {} ELSE MetricsFields)
        /\ out[k].message = msg.message
        /\ out[k].epoch = msg.epoch
        /\ out[k].iteration = msg.iteration
        /\ out[k].batch_start = msg.batch_start
        /\ msg.metrics # None =>
              /\ out[k].loss = msg.metrics[1].loss
              /\ EmittedEval(out[k].train_eval, msg.metrics[1].train_eval)
              /\ EmittedEval(out[k].test_eval, msg.metrics[1].test_eval)

\* C4's case: a message with metrics has been rendered, its two evals
\* different.
JsonEmittedWitness ==
    /\ out # <<>>
    /\ msg.metrics # None
    /\ msg.metrics[1].train_eval # msg.metrics[1].test_eval
    /\ msg.epoch # msg.iteration

----------------------------------------------------------------------------
(* MLOps (definitions.rs), in fixed point.                                 *)

\* The knots of exp and of the sigmoid, and the functions' values there.
ExpKnots == <<-6000, -5000, -4000, -3000, -2000, -1000, 0,
              1000, 2000, 3000, 4000, 5000, 6000>>
ExpTable == <<2, 7, 18, 50, 135, 368, 1000,
              2718, 7389, 20086, 54598, 148413, 403429>>
SigmoidTable == <<2, 7, 18, 47, 119, 269, 500, 731, 881, 953, 982, 993, 998>>

\* The knots of ln on (0, 1], and its values there.
LnKnots == <<1, 2, 5, 10, 20, 50, 100, 200, 300, 400, 500, 600, 700, 800, 900, 1000>>
LnTable == <<-6908, -6215, -5298, -4605, -3912, -2996, -2303, -1609, -1204,
             -916, -693, -511, -357, -223, -105, 0>>

\* f64::exp and f64::ln
Exp(z) == Interp(ExpKnots, ExpTable, z)
Ln(p) == Interp(LnKnots, LnTable, p)

\* p / q of two fixed-point numbers, q > 0.
Div(p, q) == RDiv(p * SCALE, q)

\* w.dot(x): the vectors have the same length.
Dot(p, q) == SeqSum([k \in DOMAIN p |-> Mul(p[k], q[k])])

\* hypothesis: w.dot(x) + b
Hypothesis(wv, x, bv) == Dot(wv, x) + bv

\* sigmoid: 1 / (1 + exp(-z))
Sigmoid(z) == Interp(ExpKnots, SigmoidTable, z)

\* relu: z.max(0)
Relu(z) == IF z >= 0 THEN z ELSE 0

\* The softmax of the textbooks: exp(v_i) over the sum of the exp(v_j).
SoftMaxExponentiated(vec) ==
    [k \in DOMAIN vec |-> Div(Exp(vec[k]), SeqSum([j \in DOMAIN vec |-> Exp(vec[j])]))]

\* soft_max: v / sum, sum the sum of exp(e) over the entries e of v.
SoftMax(vec) ==
    [k \in DOMAIN vec |-> Div(vec[k], SeqSum([j \in DOMAIN vec |-> Exp(vec[j])]))]

\* loss_from_pred: -(y ln(y_hat) + (1 - y) ln(1 - y_hat))
LossFromPred(yv, y_hat) ==
    0 - (Mul(yv, Ln(y_hat)) + Mul(SCALE - yv, Ln(SCALE - y_hat)))

----------------------------------------------------------------------------
(* MLOps::soft_max, step by step.                                          *)

\* Largest length of a vector given to soft_max.
SmMaxLen == 3

\* The entries a vector is drawn from (reals, before scaling).
SmVals == {-2, -1, 0, 1, 2}

InitSoftMax ==
    /\ v \in UNION {[1..n -> {Fx(k) : k \in SmVals}] : n \in 1..SmMaxLen}
    /\ sum = 0
    /\ e = 0
    /\ res = <<>>
    /\ pcS = "sum"

IdleSoftMax ==
    /\ v = <<>>
    /\ sum = 0
    /\ e = 0
    /\ res = <<>>
    /\ pcS = "idle"

\* for e in v.iter() { sum += e.exp() }: e counts the entries read so far.
SmAccumulate ==
    /\ pcS = "sum"
    /\ e < Len(v)
    /\ sum' = sum + Exp(v[e + 1])
    /\ e' = e + 1
    /\ UNCHANGED <<v, res, pcS>>
    /\ UNCHANGED notSmVars

\* v / sum
SmDivide ==
    /\ pcS = "sum"
    /\ e = Len(v)
    /\ res' = [k \in DOMAIN v |-> Div(v[k], sum)]
    /\ pcS' = "done"
    /\ UNCHANGED <<v, sum, e>>
    /\ UNCHANGED notSmVars

NextSoftMax ==
    \/ SmAccumulate
    \/ SmDivide

----------------------------------------------------------------------------
(* MLOps::soft_max: the properties.                                        *)

\* |x|
Abs(x) == IF x >= 0 THEN x ELSE 0 - x

\* C5: the vector returned has the length of the input, its entries lie in
\* [0, 1] and sum to 1 (up to the rounding of one unit per entry), and each
\* is exp(v_i) over the sum of the exp(v_j).
SoftMaxDistribution ==
    pcS = "done" =>
        /\ Len(res) = Len(v)
        /\ \A k \in DOMAIN res : 0 <= res[k] /\ res[k] <= SCALE
        /\ Abs(SeqSum(res) - SCALE) <= Len(v)
        /\ res = SoftMaxExponentiated(v)

----------------------------------------------------------------------------
(* impl ForwardProp for NeuralNetwork (optimization.rs).                   *)
(* A Layer is [weights, intercepts, activation_type]; weights is the       *)
(* sequence of the matrix's rows.                                          *)

\* Largest number of layers, and largest width of a layer or of the input.
FwdMaxLayers == 2
FwdMaxWidth == 2

\* enum ActivationType
ActivationTypes == {"sigmoid", "relu", "soft_max"}

\* &l.weights * current: one dot product per row of the matrix.
MatVec(m, x) == [k \in 1..Len(m) |-> Dot(m[k], x)]

\* p + q of two vectors of the same length.
VecAdd(p, q) == [k \in DOMAIN p |-> p[k] + q[k]]

\* The weight matrices of a shape that a network is drawn from.
WeightMatrices(nrows, ncols) ==
    {[k \in 1..nrows |-> [j \in 1..ncols |-> Fx(x)]] : x \in {-1, 1}}
    \cup {[k \in 1..nrows |-> [j \in 1..ncols |-> IF k = j THEN Fx(2) ELSE 0]]}

\* The layers of a shape.
LayersOf(nrows, ncols) ==
    [weights : WeightMatrices(nrows, ncols),
     intercepts : {[k \in 1..nrows |-> x] : x \in {0, 500}},
     activation_type : ActivationTypes]

\* The networks of n layers whose shapes fit: the widths ws[0..n] give layer k
\* a ws[k] x ws[k-1] weight matrix.
Networks(n) ==
    UNION { {ls \in [1..n -> UNION {LayersOf(ws[k], ws[k - 1]) : k \in 1..n}] :
                \A k \in 1..n : /\ Len(ls[k].weights) = ws[k]
                                /\ Len(ls[k].weights[1]) = ws[k - 1]}
            : ws \in [0..n -> 1..FwdMaxWidth] }

InitFwd ==
    /\ layers \in UNION {Networks(n) : n \in 1..FwdMaxLayers}
    /\ inputs \in [1..Len(layers[1].weights[1]) -> {Fx(-1), Fx(1)}]
    /\ current = inputs
    /\ l = 0
    /\ pcF = "loop"

IdleFwd ==
    /\ layers = <<>>
    /\ inputs = <<>>
    /\ current = <<>>
    /\ l = 0
    /\ pcF = "idle"

\* for l in &self.layers: the affine map, then MLOps.sigmoid on every entry;
\* l counts the layers passed.
FwdLayer ==
    /\ pcF = "loop"
    /\ l < Len(layers)
    /\ LET z == VecAdd(MatVec(layers[l + 1].weights, current), layers[l + 1].intercepts)
       IN  current' = [k \in DOMAIN z |-> Sigmoid(z[k])]
    /\ l' = l + 1
    /\ UNCHANGED <<layers, inputs, pcF>>
    /\ UNCHANGED notFwdVars

\* The loop is over: current is returned.
FwdReturn ==
    /\ pcF = "loop"
    /\ l = Len(layers)
    /\ pcF' = "done"
    /\ UNCHANGED <<layers, inputs, current, l>>
    /\ UNCHANGED notFwdVars

NextFwd ==
    \/ FwdLayer
    \/ FwdReturn

----------------------------------------------------------------------------
(* NeuralNetwork::forward_prop: the properties.                            *)

\* The activation a layer declares, applied to its z.
Activate(activation_type, z) ==
    CASE activation_type = "sigmoid" -> [k \in DOMAIN z |-> Sigmoid(z[k])]
      [] activation_type = "relu" -> [k \in DOMAIN z |-> Relu(z[k])]
      [] activation_type = "soft_max" -> SoftMax(z)

\* The first n layers applied to x in order, each with its declared activation.
RECURSIVE DeclaredForward(_, _, _)
DeclaredForward(ls, x, n) ==
    IF n = 0 THEN x
    ELSE Activate(ls[n].activation_type,
                  VecAdd(MatVec(ls[n].weights, DeclaredForward(ls, x, n - 1)),
                         ls[n].intercepts))

\* C7: after l layers current is the input passed through those layers in
\* order, each applying z = W * a_prev + b and then its own declared
\* activation; what is returned has as many entries as the last layer's
\* weights have rows.
FwdDeclaredActivations ==
    /\ pcF \in {"loop", "done"} => current = DeclaredForward(layers, inputs, l)
    /\ pcF = "done" => Len(current) = Len(layers[Len(layers)].weights)

----------------------------------------------------------------------------
(* impl Optimizer for StochasticGradientDescent (optimization.rs).         *)
(* data is [nrows, ncols, cells], cells the column-major storage.          *)

\* Largest row and column count of the data matrix, and the number of
\* passes of the while loop the model follows.
SgdMaxRows == 2
SgdMaxCols == 2
SgdMaxPasses == 4

\* HyperParams::default().max_epochs
DefaultMaxEpochs == 3

\* The learning rates and the cost quotas an optimizer is built with.
LearningRates == {Fx(1)}
CostQuotas == {500, 700}

\* The data matrices of a shape.
DataMatrices(nrows, ncols) ==
    [nrows : {nrows}, ncols : {ncols}, cells : [1..(nrows * ncols) -> {Fx(-1), Fx(1)}]]

\* vec![0.; n]
Zeros(n) == [k \in 1..n |-> 0]

\* fn forward_prop: the sigmoid of the hypothesis, whatever the activation type.
ForwardProp(x, wv, bv, activation_type) ==
    LET z_i == Hypothesis(wv, x, bv)
    IN  IF activation_type = "sigmoid" THEN Sigmoid(z_i) ELSE Sigmoid(z_i)

\* fn back_prop: dw[j] += x[j] * dz_i for every j, db += dz_i.
BackProp(y_hat, yv, x, dwv, dbv) ==
    LET dz_i == y_hat - yv
    IN  [dw |-> [j \in DOMAIN dwv |-> dwv[j] + Mul(x[j], dz_i)],
         db |-> dbv + dz_i]

InitSgd ==
    /\ \E nrows \in 1..SgdMaxRows, ncols \in 1..SgdMaxCols :
          /\ data \in DataMatrices(nrows, ncols)
          /\ y \in [1..ncols -> {Fx(0), Fx(1)}]
    /\ learning_rate \in LearningRates
    /\ stop_cost_quota \in CostQuotas
    /\ num_examples = data.nrows
    /\ num_features = data.ncols
    /\ w = Zeros(num_features)
    /\ dw = Zeros(num_features)
    /\ b = 0
    /\ db = 0
    /\ cost = 0
    /\ converged = FALSE
    /\ iteration = 0
    /\ i = 0
    /\ pc = "sweep"
    /\ outcome = "running"

IdleSgd ==
    /\ data = <<>>
    /\ y = <<>>
    /\ learning_rate = 0
    /\ stop_cost_quota = 0
    /\ num_examples = 0
    /\ num_features = 0
    /\ w = <<>>
    /\ dw = <<>>
    /\ b = 0
    /\ db = 0
    /\ cost = 0
    /\ converged = FALSE
    /\ iteration = 0
    /\ i = 0
    /\ pc = "idle"
    /\ outcome = "idle"

\* What stops example i: data.column(i) past the last column, w.dot(x) of
\* vectors of different lengths, y[i] past the last label; "" when nothing does.
ExamplePanic ==
    IF i >= data.ncols THEN "panic: matrix index out of bounds"
    ELSE IF Len(w) # data.nrows THEN "panic: dot product dimensions mismatch"
    ELSE IF i >= Len(y) THEN "panic: index out of bounds"
    ELSE ""

\* The body of the for loop on example i: cost, dw and db take its share.
ExampleBody ==
    LET x_i == Column(data.cells, data.nrows, i)
        y_hat_i == ForwardProp(x_i, w, b, "sigmoid")
        bp == BackProp(y_hat_i, y[i + 1], x_i, dw, db)
    IN  /\ cost' = cost + LossFromPred(y[i + 1], y_hat_i)
        /\ dw' = bp.dw
        /\ db' = bp.db
        /\ i' = i + 1
        /\ UNCHANGED <<pc, outcome>>

\* A faulty variant: the parameters follow every example's gradient at once.
SgdExampleOnline ==
    /\ pc = "sweep"
    /\ iteration < SgdMaxPasses
    /\ i < num_examples
    /\ IF ExamplePanic = ""
       THEN /\ ExampleBody
            /\ w' = [j \in DOMAIN w |-> w[j] - Mul(learning_rate, dw'[j])]
            /\ b' = b - Mul(learning_rate, db')
       ELSE /\ pc' = "panicked"
            /\ outcome' = ExamplePanic
            /\ UNCHANGED <<w, dw, b, db, cost, i>>
    /\ UNCHANGED <<data, y, learning_rate, stop_cost_quota, num_examples,
                   num_features, converged, iteration>>
    /\ UNCHANGED notSgdVars

\* for i in 0..num_examples: one example of the pass.
SgdExample ==
    /\ pc = "sweep"
    /\ iteration < SgdMaxPasses
    /\ i < num_examples
    /\ IF ExamplePanic = ""
       THEN /\ ExampleBody
            /\ UNCHANGED <<w, b>>
       ELSE /\ pc' = "panicked"
            /\ outcome' = ExamplePanic
            /\ UNCHANGED <<w, dw, b, db, cost, i>>
    /\ UNCHANGED <<data, y, learning_rate, stop_cost_quota, num_examples,
                   num_features, converged, iteration>>
    /\ UNCHANGED notSgdVars

\* After the for loop: dw, db and cost are divided by num_examples where they
\* stand, w and b step against them, and the loop's condition is set.
SgdUpdate ==
    /\ pc = "sweep"
    /\ i = num_examples
    /\ dw' = [j \in DOMAIN dw |-> RDiv(dw[j], num_examples)]
    /\ w' = [j \in DOMAIN w |-> w[j] - Mul(learning_rate, dw'[j])]
    /\ db' = RDiv(db, num_examples)
    /\ cost' = RDiv(cost, num_examples)
    /\ b' = b - Mul(learning_rate, db')
    /\ iteration' = iteration + 1
    /\ converged' = (cost' < stop_cost_quota)
    /\ i' = 0
    /\ pc' = IF converged' THEN "exit" ELSE "sweep"
    /\ UNCHANGED <<data, y, learning_rate, stop_cost_quota, num_examples,
                   num_features, outcome>>
    /\ UNCHANGED notSgdVars

\* After the while loop: unimplemented!()
SgdUnimplemented ==
    /\ pc = "exit"
    /\ pc' = "panicked"
    /\ outcome' = "panic: not implemented"
    /\ UNCHANGED <<data, y, learning_rate, stop_cost_quota, num_examples,
                   num_features, w, dw, b, db, cost, converged, iteration, i>>
    /\ UNCHANGED notSgdVars

NextSgd ==
    \/ SgdExample
    \/ SgdUpdate
    \/ SgdUnimplemented

----------------------------------------------------------------------------
(* StochasticGradientDescent::optimize: the properties.                    *)

\* C6: the run makes no more than max_epochs passes, and once the loop has
\* met its criterion and stopped, the run leaves the loop and returns a
\* model or a typed error: it does not abort.
SgdStopsWithResult ==
    /\ iteration <= DefaultMaxEpochs
    /\ converged => (pc = "exit" \/ outcome \in {"model", "error"})

\* Example k (1-based) of the data, its prediction under the parameters as
\* they stand, and its dz.
ExampleAt(k) == Column(data.cells, data.nrows, k - 1)
PredictionAt(k) == ForwardProp(ExampleAt(k), w, b, "sigmoid")
DzAt(k) == PredictionAt(k) - y[k]

\* The sums over the examples of one pass alone, under the parameters as
\* they stand: of x[j] * dz, of dz, and of the loss.
PassDw(j) == SeqSum([k \in 1..num_examples |-> Mul(ExampleAt(k)[j], DzAt(k))])
PassDb == SeqSum([k \in 1..num_examples |-> DzAt(k)])
PassCost == SeqSum([k \in 1..num_examples |-> LossFromPred(y[k], PredictionAt(k))])

\* A pass has swept all its examples; the update is next.
SweepOver == pc = "sweep" /\ i = num_examples

\* C8: at the end of every pass, the dw, db and cost that the update and the
\* convergence test use (the accumulators over num_examples) are the means
\* over the examples of that pass alone.
SgdPassMeans ==
    SweepOver =>
        /\ \A j \in DOMAIN dw :
              RDiv(dw[j], num_examples) = RDiv(PassDw(j), num_examples)
        /\ RDiv(db, num_examples) = RDiv(PassDb, num_examples)
        /\ RDiv(cost, num_examples) = RDiv(PassCost, num_examples)

\* C9: a step on an example of the sweep leaves w and b as they are, so all
\* examples of a pass meet the same parameters; w or b change only in the
\* step that ends a pass, the step that counts the pass.
SgdParametersFrame ==
    [][ /\ (pc = "sweep" /\ i < num_examples) => (w' = w /\ b' = b)
        /\ (w' # w \/ b' # b) => (SweepOver /\ iteration' = iteration + 1)
      ]_vars

\* C9's case: the second pass has swept all its examples, under parameters
\* that the first pass's update moved, and has gradients to show.
SgdParametersWitness ==
    /\ SweepOver
    /\ iteration = 1
    /\ num_examples = 2
    /\ w # Zeros(num_features)
    /\ b # 0
    /\ dw # Zeros(num_features)

\* C10: the examples are the columns and the features the rows, whatever
\* the shape: as many examples are swept as there are columns, w is as long
\* as a column, and no column access, label access or dot product fails.
SgdExamplesOnColumns ==
    /\ pc # "idle" =>
          /\ num_examples = data.ncols
          /\ Len(w) = data.nrows
    /\ outcome \notin {"panic: matrix index out of bounds",
                       "panic: dot product dimensions mismatch",
                       "panic: index out of bounds"}

----------------------------------------------------------------------------
(* The specifications.                                                     *)

InitNormOnly == InitNorm /\ IdleJson /\ IdleSoftMax /\ IdleFwd /\ IdleSgd
InitJsonOnly == IdleNorm /\ InitJson /\ IdleSoftMax /\ IdleFwd /\ IdleSgd
InitSoftMaxOnly == IdleNorm /\ IdleJson /\ InitSoftMax /\ IdleFwd /\ IdleSgd
InitFwdOnly == IdleNorm /\ IdleJson /\ IdleSoftMax /\ InitFwd /\ IdleSgd
InitSgdOnly == IdleNorm /\ IdleJson /\ IdleSoftMax /\ IdleFwd /\ InitSgd

SpecNorm == InitNormOnly /\ [][NextNorm]_vars
SpecJson == InitJsonOnly /\ [][NextJson]_vars
SpecSoftMax == InitSoftMaxOnly /\ [][NextSoftMax]_vars
SpecFwd == InitFwdOnly /\ [][NextFwd]_vars
SpecSgd == InitSgdOnly /\ [][NextSgd]_vars

====
